---- MODULE Spec2Model ----
(***************************************************************************)
(* Model of cogstat/cogstat_hyp_test.py: the hypothesis-test functions.    *)
(*                                                                         *)
(* Every function is a synchronous call: it takes a data frame and names,  *)
(* calls external numeric routines and returns a text (or raises).  One    *)
(* action per function performs the whole call; the state afterwards holds *)
(* the arguments of the call, the log of the external routines that were   *)
(* invoked (in order, with the samples they were given and their outcome)  *)
(* and how the call ended.                                                 *)
(*                                                                         *)
(* Numbers.  p-values are in thousandths (One = 1.000, Alpha = 0.050), the *)
(* Greenhouse-Geisser epsilon and the degrees of freedom of the repeated   *)
(* measures ANOVA line are in hundredths (EpsUnit = 1.00).  A text is the  *)
(* sequence of its parts, each part holding the values handed to the       *)
(* format string (the digits printed by %0.3g and print_p are not          *)
(* modelled).                                                              *)
(***************************************************************************)
EXTENDS Integers, Sequences, FiniteSets, TLC

VARIABLES fn, pdf, var_names, factors, grouping_name, se_name, res

vars == <<fn, pdf, var_names, factors, grouping_name, se_name, res>>

\* ------------------------------------------------------------------ bounds
MaxRows == 2
MaxVars == 3

\* ------------------------------------------------------------ data frames
\* A missing cell (NaN).
NA == 0
Cols == {1, 2}
\* The values a column can hold besides NA: column 1 one value, column 2 two
\* (as a grouping column it has up to two levels).
Values == <<{1}, {1, 2}>>
Cells == {NA} \cup UNION {Values[c] : c \in Cols}
RowSet == {r \in [Cols -> Cells] : \A c \in Cols : r[c] \in {NA} \cup Values[c]}

\* pdf: a sequence of rows, each row a cell per column; the index of a row
\* is its position.
Datasets == UNION {[1..n -> RowSet] : n \in 0..MaxRows}
VarNameLists == UNION {[1..n -> Cols] : n \in 0..MaxVars}

\* pdf[var_names]: the frame of the named columns, rows keep their index.
Select(df, names) ==
    [i \in 1..Len(df) |->
        [ID |-> i, cells |-> [j \in 1..Len(names) |-> df[i][names[j]]]]]

RowComplete(r) == \A j \in 1..Len(r.cells) : r.cells[j] # NA

\* A dropna that drops nothing.
DropNaKeepsAll(frame) == frame

\* frame.dropna(): listwise deletion.
DropNa(frame) == SelectSeq(frame, RowComplete)

\* frame.iloc[:, j]
Column(frame, j) == [i \in 1..Len(frame) |-> frame[i].cells[j]]

\* The columns of a frame, in order (frame.T.values).
Columns(frame, k) == [j \in 1..k |-> Column(frame, j)]

\* pdf[name]: one column as a series.
Series(df, name) == [i \in 1..Len(df) |-> df[i][name]]

Present(x) == x # NA

\* series.dropna()
SeriesDropNa(s) == SelectSeq(s, Present)

\* ------------------------------------------------- outcomes of a routine
\* 1.0 in the unit of the p-values (thousandths).
One == 1000

\* A routine returns its numbers or raises an error with a message.  Every
\* p-value a routine returns lies in [0, 1].
Stats == {7}
Dofs == {5}
PVals == {10, 50, 600}
ValueError == "ValueError: e1"
Errs == {ValueError, "RuntimeError: e2"}

Outcomes ==
    [ok : {TRUE}, stat : Stats, dof : Dofs, p : PVals, err : {""}]
    \cup [ok : {FALSE}, stat : {0}, dof : {0}, p : {0}, err : Errs]

\* A routine that returns a table (or a formatting precision).
TableOutcomes ==
    {[ok |-> TRUE, err |-> ""], [ok |-> FALSE, err |-> "RuntimeError: e2"]}

\* ------------------------------------------------------ calls and results
\* One invocation of an external routine: the samples it was given, whether
\* it returned, and what it returned or raised.
Call(r, s, o) ==
    [routine |-> r, samples |-> s, ok |-> o.ok, out |-> o]

\* One part of a text: what was printed (kind), the degrees of freedom, N,
\* the statistic and the p-value given to the format (each absent or
\* present), an error message, and the samples df and N were computed from.
Line(k, d, m, s, q, b) ==
    [kind |-> k, df |-> d, n |-> m, stat |-> s, p |-> q, err |-> "",
     basis |-> b, label |-> <<>>]

Msg(kind) == Line(kind, <<>>, <<>>, <<>>, <<>>, <<>>)

ErrLine(k, e) ==
    [kind |-> k, df |-> <<>>, n |-> <<>>, stat |-> <<>>, p |-> <<>>,
     err |-> e, basis |-> <<>>, label |-> <<>>]

\* A line of the multi-way table: the factor names of the term.
TermLine(k, names, d, s, q) ==
    [kind |-> k, df |-> d, n |-> <<>>, stat |-> s, p |-> q, err |-> "",
     basis |-> <<>>, label |-> names]

Returned(text, calls) ==
    [status |-> "returned", text |-> text, calls |-> calls, exc |-> ""]

Raised(exc, calls) ==
    [status |-> "raised", text |-> <<>>, calls |-> calls, exc |-> exc]

NoCall == [status |-> "none", text |-> <<>>, calls |-> <<>>, exc |-> ""]

\* ------------------------------------------------------ compare variables
run_power_analysis == FALSE

PowerLines(nobs) ==
    IF run_power_analysis
    THEN <<Line("power", <<>>, <<nobs>>, <<>>, <<>>, <<>>)>>
    ELSE <<>>

paired_t_test(df_, names, o) ==
    IF Len(names) # 2
    THEN Returned(<<Msg("Paired t-test requires two variables.")>>, <<>>)
    ELSE LET variables == DropNa(Select(df_, names))
             dof == Len(variables) - 1
             samples == <<Column(variables, 1), Column(variables, 2)>>
             call == Call("ttest_rel", samples, o)
         IN  IF ~o.ok
             THEN Raised(o.err, <<call>>)
             ELSE Returned(PowerLines(Len(variables)) \o
                           <<Line("paired_t", <<dof>>, <<>>, <<o.stat>>,
                                  <<o.p>>, samples)>>,
                           <<call>>)

paired_wilcox_test(df_, names, o) ==
    IF Len(names) # 2
    THEN Returned(<<Msg("Paired Wilcoxon test requires two variables.")>>,
                  <<>>)
    ELSE LET variables == DropNa(Select(df_, names))
             samples == <<Column(variables, 1), Column(variables, 2)>>
             call == Call("wilcoxon", samples, o)
         IN  IF ~o.ok
             THEN Raised(o.err, <<call>>)
             ELSE Returned(<<Line("wilcoxon", <<>>, <<>>, <<o.stat>>,
                                  <<o.p>>, <<>>)>>,
                           <<call>>)

mcnemar_test(df_, names, o) ==
    IF Len(names) < 2
    THEN Raised("IndexError", <<>>)
    ELSE LET samples == <<Series(df_, names[1]), Series(df_, names[2])>>
             call == Call("mcnemar", samples, o)
         IN  IF ~o.ok
             THEN Raised(o.err, <<call>>)
             ELSE Returned(<<Line("mcnemar", <<1>>,
                                  <<Len(Series(df_, names[1]))>>,
                                  <<o.stat>>, <<o.p>>,
                                  <<Series(df_, names[1])>>)>>,
                           <<call>>)

cochran_q_test(df_, names, o) ==
    LET samples == Columns(Select(df_, names), Len(names))
        call == Call("cochrans_q", samples, o)
    IN  IF ~o.ok
        THEN Raised(o.err, <<call>>)
        ELSE IF Len(names) = 0
        THEN Raised("IndexError", <<call>>)
        ELSE Returned(<<Line("cochran_q", <<Len(names) - 1>>,
                             <<Len(Series(df_, names[1]))>>,
                             <<o.stat>>, <<o.p>>,
                             <<Series(df_, names[1])>>)>>,
                      <<call>>)

\* ------------------------------------------- repeated measures ANOVA
\* The significance threshold, in thousandths.
Alpha == 50
\* 1.0 in the unit of epsilon (hundredths).
EpsUnit == 100

\* What cs_stat_num.repeated_measures_anova returns:
\* [dfn, dfd, f, pf, w, pw] and corr_table (epsilon, corrected p).
RmOutcomes ==
    [ok : {TRUE}, dfn : {2}, dfd : {4}, f : Stats, pf : {10, 50, 600},
     w : {3}, pw : {49, 50}, eps : {50, 100}, pcorr : {20, 60}, err : {""}]
    \cup [ok : {FALSE}, dfn : {0}, dfd : {0}, f : {0}, pf : {0}, w : {0},
          pw : {0}, eps : {0}, pcorr : {0}, err : Errs]

\* A factor is (name, number of levels); a name is a string, the sequence of
\* its characters.
FactorNames == {<<"A">>, <<"B">>, <<"C", "_", "d">>}
LevelCounts == {1, 2}
Factor == FactorNames \X LevelCounts
\* The non-empty factor lists: one or two factors of different names.
FactorLists ==
    {fs \in UNION {[1..n -> Factor] : n \in 1..2} :
        \A i, j \in 1..Len(fs) : i # j => fs[i][1] # fs[j][1]}

Digits == <<"0", "1", "2", "3", "4", "5", "6", "7", "8", "9">>

\* str(i) for a level number.
Str(i) == <<Digits[i + 1]>>

\* The list built by the loop over the first k factors: every previous name
\* followed by '_', the factor's name and each level number, the previous
\* names varying slowest.
RECURSIVE BuildTempNames(_, _)
BuildTempNames(fs, k) ==
    IF k = 0
    THEN << <<>> >>
    ELSE LET prev == BuildTempNames(fs, k - 1)
             cnt == fs[k][2]
         IN  [idx \in 1..(Len(prev) * cnt) |->
                 prev[((idx - 1) \div cnt) + 1] \o <<"_">> \o fs[k][1]
                 \o Str((idx - 1) % cnt)]

\* temp_var_name[1:]
DropFirst(str) == IF Len(str) = 0 THEN str ELSE Tail(str)

temp_var_names(fs) ==
    LET built == BuildTempNames(fs, Len(fs))
    IN  [i \in 1..Len(built) |-> DropFirst(built[i])]

\* str.split('_')
RECURSIVE SplitSep(_, _)
SplitSep(str, cur) ==
    IF Len(str) = 0
    THEN <<cur>>
    ELSE IF Head(str) = "_"
    THEN <<cur>> \o SplitSep(Tail(str), <<>>)
    ELSE SplitSep(Tail(str), Append(cur, Head(str)))

Split(str) == SplitSep(str, <<>>)

\* pd.melt(pdf_temp, id_vars='ID', value_vars=temp_var_names), then the
\* pieces of 'variable' as further columns: one long row per (variable, row),
\* the variables in order and the rows in order within a variable.
pdf_long(frame, temps) ==
    LET rows == Len(frame)
    IN  [idx \in 1..(Len(temps) * rows) |->
            LET j == ((idx - 1) \div rows) + 1
                i == ((idx - 1) % rows) + 1
            IN  [ID |-> frame[i].ID, variable |-> temps[j],
                 value |-> frame[i].cells[j], pieces |-> Split(temps[j])]]

\* rename(columns={i: factors[i][0]}): the name of the i-th piece column.
\* A piece beyond the factors keeps its number as name.
PieceColumn(fs, i) == IF i <= Len(fs) THEN fs[i][1] ELSE Str(i - 1)

\* The names of the piece columns of the long frame: as many as the split
\* gives pieces (every temporary name has the same number of separators).
PieceColumns(fs, temps) ==
    IF Len(temps) = 0
    THEN <<>>
    ELSE [i \in 1..Len(Split(temps[1])) |-> PieceColumn(fs, i)]

\* What AnovaRM(...).fit() returns or raises; the F and p of its table are
\* only printed, one value of each stands for them.
AnovaOutcomes == {o \in Outcomes : o.ok => o.p = 10}

\* The terms of the table AnovaRM returns: every non-empty combination of
\* the factors, as the list of its factor names.
RECURSIVE Terms(_, _)
Terms(fs, k) ==
    IF k = 0
    THEN <<>>
    ELSE LET prev == Terms(fs, k - 1)
         IN  prev \o << <<fs[k][1]>> >>
             \o [i \in 1..Len(prev) |-> Append(prev[i], fs[k][1])]

\* A threshold test that lets the threshold itself through.
SphericityViolatedLe(pw) == pw <= Alpha

\* if pw < 0.05:  # sphericity is violated
SphericityViolated(pw) == pw < Alpha

\* A gate that lets the threshold itself through.
PostHocGateLe(p) == p <= Alpha

\* if p < 0.05: the gate of the post-hoc tests.
PostHocGate(p) == p < Alpha

SphericityViolatedMsg ==
    "Sphericity is violated. >> Using Greenhouse-Geisser correction."
SphericityNotViolatedMsg == "Sphericity is not violated. "
HolmTable == "holm_table"
DunnTable == "dunn_table"

rm_one_way(df_, names, o, ph) ==
    LET data == DropNa(Select(df_, names))
        samples == Columns(data, Len(names))
        call == Call("repeated_measures_anova", samples, o)
    IN  IF ~o.ok
        THEN Raised(o.err, <<call>>)
        ELSE LET violated == SphericityViolated(o.pw)
                 p == IF violated THEN o.pcorr ELSE o.pf
                 mauchly == Line("mauchly", <<>>, <<>>, <<o.w>>, <<o.pw>>,
                                 <<>>)
                 anova ==
                     IF violated
                     THEN <<Msg(SphericityViolatedMsg),
                            Line("rm_anova", <<o.dfn * o.eps, o.dfd * o.eps>>,
                                 <<>>, <<o.f>>, <<p>>, <<>>)>>
                     ELSE <<Msg(SphericityNotViolatedMsg),
                            Line("rm_anova",
                                 <<o.dfn * EpsUnit, o.dfd * EpsUnit>>,
                                 <<>>, <<o.f>>, <<p>>, <<>>)>>
                 phcall == Call("pairwise_ttest", samples, ph)
             IN  IF ~PostHocGate(p)
                 THEN Returned(<<mauchly>> \o anova, <<call>>)
                 ELSE IF ~ph.ok
                 THEN Raised(ph.err, <<call, phcall>>)
                 ELSE Returned(<<mauchly>> \o anova \o
                               <<Msg("Comparing variables pairwise with the Holm-Bonferroni correction:"),
                                 Msg(HolmTable)>>,
                               <<call, phcall>>)

rm_multi_way(df_, names, fs, o) ==
    LET temps == temp_var_names(fs)
        pdf_temp == DropNa(Select(df_, names))
    IN  IF Len(temps) # Len(names)
        THEN Raised("ValueError: Length mismatch", <<>>)
        ELSE LET long == pdf_long(pdf_temp, temps)
                 call == [routine |-> "AnovaRM",
                          samples |-> <<[i \in 1..Len(long) |-> long[i].value]>>,
                          data |-> long,
                          columns |-> PieceColumns(fs, temps),
                          within |-> [i \in 1..Len(fs) |-> fs[i][1]],
                          ok |-> o.ok, out |-> o]
                 terms == Terms(fs, Len(fs))
             IN  IF ~o.ok
                 THEN Raised(o.err, <<call>>)
                 ELSE Returned(
                          [i \in 1..Len(terms) |->
                              TermLine(IF Len(terms[i]) = 1
                                       THEN "Main effect of %s"
                                       ELSE "Interaction of factors %s",
                                       terms[i], <<o.dof, o.dof>>,
                                       <<o.stat>>, <<o.p>>)],
                          <<call>>)

repeated_measures_anova(df_, names, fs, o, ph, om) ==
    IF Len(fs) = 0
    THEN rm_one_way(df_, names, o, ph)
    ELSE rm_multi_way(df_, names, fs, om)

friedman_test(df_, names, o) ==
    IF Len(names) < 2
    THEN Returned(<<Msg("Friedman test requires at least two variables.")>>,
                  <<>>)
    ELSE LET variables == DropNa(Select(df_, names))
             samples == Columns(variables, Len(names))
             call == Call("friedmanchisquare", samples, o)
         IN  IF ~o.ok
             THEN Raised(o.err, <<call>>)
             ELSE Returned(<<Line("friedman", <<Len(names) - 1>>,
                                  <<Len(variables)>>, <<o.stat>>, <<o.p>>,
                                  samples)>>,
                           <<call>>)

\* --------------------------------------------------------- compare groups
\* The elements of a set of numbers in ascending order.
SortedSeq(S) ==
    CHOOSE q \in [1..Cardinality(S) -> S] :
        \A i, j \in 1..Cardinality(S) : i < j => q[i] < q[j]

\* cs_stat._split_into_groups: the levels of the grouping column in order
\* and, per level, the dependent variable of the rows of that level (missing
\* values still in).
split_into_groups(df_, var, grp) ==
    LET levels == SortedSeq({df_[i][grp] : i \in 1..Len(df_)} \ {NA})
    IN  [groups |-> levels,
         variables |->
             [k \in 1..Len(levels) |->
                 LET rows == SelectSeq(df_, LAMBDA r : r[grp] = levels[k])
                 IN  [i \in 1..Len(rows) |-> rows[i][var]]]]

\* dummy_groups, [var1, var2] = ...: unpacking fails unless there are
\* exactly two groups.
UnpackError == "ValueError: values to unpack"

independent_t_test(df_, var, grp, o, oprec) ==
    LET sp == split_into_groups(df_, var, grp)
    IN  IF Len(sp.variables) # 2
        THEN Raised(UnpackError, <<>>)
        ELSE LET var1 == SeriesDropNa(sp.variables[1])
                 var2 == SeriesDropNa(sp.variables[2])
                 samples == <<var1, var2>>
                 call == Call("ttest_ind", samples, o)
                 pcall == Call("precision", samples, oprec)
             IN  IF ~o.ok
                 THEN Raised(o.err, <<call>>)
                 ELSE IF Len(var1) = 0 \/ Len(var2) = 0
                 THEN Raised("ZeroDivisionError", <<call>>)
                 ELSE IF ~oprec.ok
                 THEN Raised(oprec.err, <<call, pcall>>)
                 ELSE Returned(
                          PowerLines(Len(var1)) \o
                          <<Line("Difference between the two groups:", <<>>,
                                 <<>>, <<>>, <<>>, samples),
                            Line("independent_t", <<o.dof>>, <<>>,
                                 <<o.stat>>, <<o.p>>, <<>>)>>,
                          <<call, pcall>>)

single_case_task_extremity(df_, var, grp, se, o) ==
    LET sp == split_into_groups(df_, var, grp)
    IN  IF Len(sp.variables) # 2
        THEN Raised(UnpackError, <<>>)
        ELSE LET var1 == sp.variables[1]
                 var2 == sp.variables[2]
             IN  IF se = 0
                 THEN LET ind_data == IF Len(var1) = 1 THEN var1 ELSE var2
                          group_data == IF Len(var1) = 1
                                        THEN SeriesDropNa(var2)
                                        ELSE SeriesDropNa(var1)
                          call == Call("modified_t_test",
                                       <<ind_data, group_data>>, o)
                      IN  IF o.ok
                          THEN Returned(<<Line("modified_t", <<o.dof>>, <<>>,
                                               <<o.stat>>, <<o.p>>, <<>>)>>,
                                        <<call>>)
                          ELSE IF o.err = ValueError
                          THEN Returned(<<Msg("One of the groups should include only a single data.")>>,
                                        <<call>>)
                          ELSE Raised(o.err, <<call>>)
                 ELSE LET sp2 == split_into_groups(df_, se, grp)
                          se1 == sp2.variables[1]
                          se2 == sp2.variables[2]
                          first == Len(var1) = 1
                          case_var == IF first THEN var1[1] ELSE var2[1]
                          control_var == IF first THEN var2 ELSE var1
                          case_se == IF first THEN se1[1] ELSE se2[1]
                          control_se == IF first THEN se2 ELSE se1
                          call == Call("slope_extremity_test",
                                       << <<case_var>>, <<case_se>>,
                                          control_var, control_se >>, o)
                      IN  IF ~o.ok
                          THEN Raised(o.err, <<call>>)
                          ELSE Returned(<<Line("slope", <<o.dof>>, <<>>,
                                               <<o.stat>>, <<o.p>>, <<>>)>>,
                                        <<call>>)

\* The degrees of freedom Welch's line prints, as what they are computed
\* from: the group sizes n1, n2 and the standard deviations of var1, var2.
WelchDf(var1, var2) ==
    [n1 |-> Len(var1), n2 |-> Len(var2), std1 |-> var1, std2 |-> var2]

welch_t_test(df_, var, grp, o) ==
    LET sp == split_into_groups(df_, var, grp)
    IN  IF Len(sp.variables) # 2
        THEN Raised(UnpackError, <<>>)
        ELSE LET var1 == sp.variables[1]
                 var2 == sp.variables[2]
                 call == Call("ttest_ind",
                              <<SeriesDropNa(var1), SeriesDropNa(var2)>>, o)
             IN  IF ~o.ok
                 THEN Raised(o.err, <<call>>)
                 ELSE Returned(<<Line("welch_t", <<WelchDf(var1, var2)>>,
                                      <<>>, <<o.stat>>, <<o.p>>,
                                      <<var1, var2>>)>>,
                               <<call>>)

\* A fallback that reports the routine's p as it is.
FallbackPNotDoubled(p) == p

\* print_p(p * 2): the fallback's p, doubled.
FallbackP(p) == p * 2

MannWhitneyLine == "Result of independent samples Mann-Whitney rank test: "

mann_whitney_test(df_, var, grp, o1, o2) ==
    LET sp == split_into_groups(df_, var, grp)
    IN  IF Len(sp.variables) # 2
        THEN Raised(UnpackError, <<>>)
        ELSE LET samples == <<SeriesDropNa(sp.variables[1]),
                              SeriesDropNa(sp.variables[2])>>
                 first == Call("mannwhitneyu two-sided", samples, o1)
                 second == Call("mannwhitneyu", samples, o2)
             IN  IF o1.ok
                 THEN Returned(<<Line(MannWhitneyLine, <<>>, <<>>,
                                      <<o1.stat>>, <<o1.p>>, <<>>)>>,
                               <<first>>)
                 ELSE IF o2.ok
                 THEN Returned(<<Line(MannWhitneyLine, <<>>, <<>>,
                                      <<o2.stat>>, <<FallbackP(o2.p)>>, <<>>)>>,
                               <<first, second>>)
                 ELSE Returned(<<ErrLine(MannWhitneyLine, o2.err)>>,
                               <<first, second>>)

KruskalWallisLine == "Result of the Kruskal-Wallis test: "

kruskal_wallis_test(df_, var, grp, o, ph) ==
    LET sp == split_into_groups(df_, var, grp)
        variables == [k \in 1..Len(sp.variables) |->
                         SeriesDropNa(sp.variables[k])]
        call == Call("kruskal", variables, o)
        counted == SeriesDropNa(Series(df_, var))
        grouped == SelectSeq(df_, LAMBDA r : r[grp] # NA)
        phcall == Call("posthoc_dunn",
                       <<Series(grouped, var), Series(grouped, grp)>>, ph)
        line == Line(KruskalWallisLine, <<Len(sp.groups) - 1>>,
                     <<Len(counted)>>, <<o.stat>>, <<o.p>>, <<counted>>)
        heading == <<Msg("Groups differ. Post-hoc test of the means."),
                     Msg("Results of Dunn's test (p values).")>>
    IN  IF ~o.ok
        THEN Returned(<<ErrLine(KruskalWallisLine, o.err)>>, <<call>>)
        ELSE IF ~PostHocGate(o.p)
        THEN Returned(<<line>>, <<call>>)
        ELSE IF ~ph.ok
        THEN Returned(<<line>> \o heading \o
                      <<ErrLine(KruskalWallisLine, ph.err)>>,
                      <<call, phcall>>)
        ELSE Returned(<<line>> \o heading \o <<Msg(DunnTable)>>,
                      <<call, phcall>>)

\* ------------------------------------------------------------------ state
Init ==
    /\ fn = "none"
    /\ pdf = <<>>
    /\ var_names = <<>>
    /\ factors = <<>>
    /\ grouping_name = 0
    /\ se_name = 0
    /\ res = NoCall

\* A call is made by a caller that holds no result; the result is handed
\* back and nothing of it persists (Return).
CallPaired(name, df_, names, r) ==
    /\ fn' = name
    /\ pdf' = df_
    /\ var_names' = names
    /\ factors' = <<>>
    /\ grouping_name' = 0
    /\ se_name' = 0
    /\ res' = r

PairedTTest ==
    /\ fn = "none"
    /\ \E d \in Datasets, names \in VarNameLists, o \in Outcomes :
        CallPaired("paired_t_test", d, names, paired_t_test(d, names, o))

PairedWilcoxTest ==
    /\ fn = "none"
    /\ \E d \in Datasets, names \in VarNameLists, o \in Outcomes :
        CallPaired("paired_wilcox_test", d, names,
                   paired_wilcox_test(d, names, o))

McnemarTest ==
    /\ fn = "none"
    /\ \E d \in Datasets, names \in VarNameLists, o \in Outcomes :
        CallPaired("mcnemar_test", d, names, mcnemar_test(d, names, o))

CochranQTest ==
    /\ fn = "none"
    /\ \E d \in Datasets, names \in VarNameLists, o \in Outcomes :
        CallPaired("cochran_q_test", d, names, cochran_q_test(d, names, o))

FriedmanTest ==
    /\ fn = "none"
    /\ \E d \in Datasets, names \in VarNameLists, o \in Outcomes :
        CallPaired("friedman_test", d, names, friedman_test(d, names, o))

CallRm(d, names, fs, r) ==
    /\ fn' = "repeated_measures_anova"
    /\ pdf' = d
    /\ var_names' = names
    /\ factors' = fs
    /\ grouping_name' = 0
    /\ se_name' = 0
    /\ res' = r

\* A routine the call never reaches has no outcome.
Unused == [ok |-> FALSE, err |-> "unused"]

RepeatedMeasuresAnovaOneWay ==
    /\ fn = "none"
    /\ \E d \in Datasets, names \in VarNameLists,
          o \in RmOutcomes, ph \in TableOutcomes :
        CallRm(d, names, <<>>,
               repeated_measures_anova(d, names, <<>>, o, ph, Unused))

RepeatedMeasuresAnovaMultiWay ==
    /\ fn = "none"
    /\ \E d \in Datasets, names \in VarNameLists, fs \in FactorLists,
          om \in AnovaOutcomes :
        CallRm(d, names, fs,
               repeated_measures_anova(d, names, fs, Unused, Unused, om))

CallGroup(name, d, var, grp, se, r) ==
    /\ fn' = name
    /\ pdf' = d
    /\ var_names' = <<var>>
    /\ factors' = <<>>
    /\ grouping_name' = grp
    /\ se_name' = se
    /\ res' = r

IndependentTTest ==
    /\ fn = "none"
    /\ \E d \in Datasets, var \in Cols, grp \in Cols, o \in Outcomes,
          oprec \in TableOutcomes :
        CallGroup("independent_t_test", d, var, grp, 0,
                  independent_t_test(d, var, grp, o, oprec))

SingleCaseTaskExtremity ==
    /\ fn = "none"
    /\ \E d \in Datasets, var \in Cols, grp \in Cols, se \in {0} \cup Cols,
          o \in Outcomes :
        CallGroup("single_case_task_extremity", d, var, grp, se,
                  single_case_task_extremity(d, var, grp, se, o))

WelchTTest ==
    /\ fn = "none"
    /\ \E d \in Datasets, var \in Cols, grp \in Cols, o \in Outcomes :
        CallGroup("welch_t_test", d, var, grp, 0,
                  welch_t_test(d, var, grp, o))

MannWhitneyTest ==
    /\ fn = "none"
    /\ \E d \in Datasets, var \in Cols, grp \in Cols, o1 \in Outcomes,
          o2 \in Outcomes :
        CallGroup("mann_whitney_test", d, var, grp, 0,
                  mann_whitney_test(d, var, grp, o1, o2))

KruskalWallisTest ==
    /\ fn = "none"
    /\ \E d \in Datasets, var \in Cols, grp \in Cols, o \in Outcomes,
          ph \in TableOutcomes :
        CallGroup("kruskal_wallis_test", d, var, grp, 0,
                  kruskal_wallis_test(d, var, grp, o, ph))

Return ==
    /\ fn # "none"
    /\ fn' = "none"
    /\ pdf' = <<>>
    /\ var_names' = <<>>
    /\ factors' = <<>>
    /\ grouping_name' = 0
    /\ se_name' = 0
    /\ res' = NoCall

Next ==
    \/ Return
    \/ PairedTTest
    \/ PairedWilcoxTest
    \/ McnemarTest
    \/ CochranQTest
    \/ RepeatedMeasuresAnovaOneWay
    \/ RepeatedMeasuresAnovaMultiWay
    \/ FriedmanTest
    \/ IndependentTTest
    \/ SingleCaseTaskExtremity
    \/ WelchTTest
    \/ MannWhitneyTest
    \/ KruskalWallisTest

Spec == Init /\ [][Next]_vars
\* ================================================================ claims
RmAnova == fn = "repeated_measures_anova"
OneWayRm == RmAnova /\ factors = <<>>
KruskalWallis == fn = "kruskal_wallis_test"

HasKind(k) == \E i \in 1..Len(res.text) : res.text[i].kind = k
LinesOf(k) == SelectSeq(res.text, LAMBDA l : l.kind = k)

\* C1: in a one-way repeated_measures_anova that reports a result, the
\* Greenhouse-Geisser branch is taken exactly when Mauchly's pw < 0.05; in
\* that branch the ANOVA line carries dfn*epsilon, dfd*epsilon and the
\* corrected p, otherwise dfn, dfd and the uncorrected pf.
C1_SphericityBranch ==
    (OneWayRm /\ res.status = "returned") =>
        LET o == res.calls[1].out
            anova == LinesOf("rm_anova")
        IN  /\ Len(anova) = 1
            /\ HasKind(SphericityViolatedMsg) <=> (o.pw < Alpha)
            /\ HasKind(SphericityNotViolatedMsg) <=> ~(o.pw < Alpha)
            /\ IF o.pw < Alpha
               THEN /\ anova[1].df = <<o.dfn * o.eps, o.dfd * o.eps>>
                    /\ anova[1].p = <<o.pcorr>>
               ELSE /\ anova[1].df = <<o.dfn * EpsUnit, o.dfd * EpsUnit>>
                    /\ anova[1].p = <<o.pf>>

\* A one-way call that took the Greenhouse-Geisser branch and returned.
C1_Witness ==
    /\ OneWayRm
    /\ res.status = "returned"
    /\ res.calls[1].out.pw < Alpha
    /\ HasKind(SphericityViolatedMsg)

\* The omnibus p-value of a call whose omnibus routine returned.
PostHocCase ==
    /\ OneWayRm \/ KruskalWallis
    /\ Len(res.calls) >= 1
    /\ res.calls[1].ok

OmnibusP ==
    LET o == res.calls[1].out
    IN  IF KruskalWallis THEN o.p
        ELSE IF o.pw < Alpha THEN o.pcorr ELSE o.pf

PostHocShown ==
    /\ res.status = "returned"
    /\ HasKind(IF KruskalWallis THEN DunnTable ELSE HolmTable)

PostHocRoutine == IF KruskalWallis THEN "posthoc_dunn" ELSE "pairwise_ttest"

\* C2 as stated: the post-hoc table is in the returned text exactly when the
\* omnibus p-value is below 0.05, whatever the post-hoc routine does.
C2_PostHocIffSignificant ==
    (PostHocCase /\ res.status = "returned") =>
        (PostHocShown <=> OmnibusP < Alpha)

\* C2, amended: the post-hoc routine is invoked exactly when the omnibus
\* p-value (the one the sphericity branch chose, or the Kruskal-Wallis p) is
\* below 0.05, and its table is in the returned text exactly when it was
\* invoked and did not fail.
C2_PostHocIffSignificantAndComputed ==
    PostHocCase =>
        /\ Len(res.calls) <= 2
        /\ Len(res.calls) = 2 <=> OmnibusP < Alpha
        /\ Len(res.calls) = 2 => res.calls[2].routine = PostHocRoutine
        /\ PostHocShown <=> (Len(res.calls) = 2 /\ res.calls[2].ok)

\* A one-way call whose gate used the corrected p: significant after the
\* correction, not significant before, and the Holm table is shown.
C2_Witness ==
    /\ OneWayRm
    /\ PostHocCase
    /\ res.calls[1].out.pw < Alpha
    /\ res.calls[1].out.pcorr < Alpha
    /\ ~(res.calls[1].out.pf < Alpha)
    /\ PostHocShown

\* C3: repeated_measures_anova called with fewer than two variable names
\* returns a configuration-error text and invokes no numeric routine.
C3_TooFewVariablesRejected ==
    (RmAnova /\ Len(var_names) < 2) =>
        /\ res.status = "returned"
        /\ res.calls = <<>>
        /\ Len(res.text) = 1
        /\ res.text[1].stat = <<>>
RECURSIVE LevelProduct(_, _)
LevelProduct(fs, k) == IF k = 0 THEN 1 ELSE LevelProduct(fs, k - 1) * fs[k][2]

\* The text is one message without a statistic and no routine was invoked.
RejectedWithMessage ==
    /\ res.status = "returned"
    /\ res.calls = <<>>
    /\ Len(res.text) = 1
    /\ res.text[1].stat = <<>>

\* C4: repeated_measures_anova called with factors whose level counts have a
\* product different from len(var_names) returns a configuration-error text
\* and attempts no ANOVA computation.
C4_FactorMismatchReported ==
    (RmAnova /\ factors # <<>>
     /\ LevelProduct(factors, Len(factors)) # Len(var_names)) =>
        RejectedWithMessage

\* C5: every call ends in a returned text, never in an exception; when the
\* last routine invoked failed, the text carries its error message.
C5_AlwaysReturnsText ==
    fn # "none" =>
        /\ res.status = "returned"
        /\ (Len(res.calls) > 0 /\ ~res.calls[Len(res.calls)].ok) =>
               \E i \in 1..Len(res.text) :
                   res.text[i].err = res.calls[Len(res.calls)].out.err

MannWhitneyAttempted ==
    fn = "mann_whitney_test" /\ Len(res.calls) >= 1

\* C6: once mann_whitney_test attempts a computation, the two-sided one is
\* first; if it succeeds its U and p are the reported ones and the fallback
\* is not called; if it fails the fallback is called and its p is reported
\* doubled; if the fallback fails too its error message is the text.  In
\* each case the call returns a text of exactly one Mann-Whitney line.
C6_MannWhitneyTwoTier ==
    MannWhitneyAttempted =>
        LET first == res.calls[1]
        IN  /\ res.status = "returned"
            /\ Len(res.text) = 1
            /\ res.text[1].kind = MannWhitneyLine
            /\ first.routine = "mannwhitneyu two-sided"
            /\ IF first.ok
               THEN /\ Len(res.calls) = 1
                    /\ res.text[1].stat = <<first.out.stat>>
                    /\ res.text[1].p = <<first.out.p>>
                    /\ res.text[1].err = ""
               ELSE /\ Len(res.calls) = 2
                    /\ res.calls[2].routine = "mannwhitneyu"
                    /\ res.calls[2].samples = first.samples
                    /\ IF res.calls[2].ok
                       THEN /\ res.text[1].stat = <<res.calls[2].out.stat>>
                            /\ res.text[1].p = <<2 * res.calls[2].out.p>>
                            /\ res.text[1].err = ""
                       ELSE /\ res.text[1].stat = <<>>
                            /\ res.text[1].p = <<>>
                            /\ res.text[1].err = res.calls[2].out.err

\* The two-sided computation failed and the fallback's p was reported.
C6_Witness ==
    /\ MannWhitneyAttempted
    /\ Len(res.calls) = 2
    /\ ~res.calls[1].ok
    /\ res.calls[2].ok
    /\ res.text[1].p # <<>>

PairedFns ==
    {"paired_t_test", "paired_wilcox_test", "mcnemar_test", "cochran_q_test",
     "friedman_test"}

\* The number of variables a paired-sample function requires: exactly two,
\* or at least two for the k-sample tests.
CountOk(f, k) ==
    IF f \in {"cochran_q_test", "friedman_test"} THEN k >= 2 ELSE k = 2

\* C7: a paired-sample function given the wrong number of variable names
\* returns an error message and never invokes its external routine.
C7_ArityCheckedFirst ==
    (fn \in PairedFns /\ ~CountOk(fn, Len(var_names))) => RejectedWithMessage

NoMissing(samples) ==
    \A k \in 1..Len(samples) :
        \A i \in 1..Len(samples[k]) : samples[k][i] # NA

\* C8: no sample given to a numeric routine, and no sample a reported df or
\* N is computed from, still contains a missing value.
C8_MissingValuesExcluded ==
    res.status = "returned" =>
        /\ \A c \in 1..Len(res.calls) : NoMissing(res.calls[c].samples)
        /\ \A i \in 1..Len(res.text) : NoMissing(res.text[i].basis)

\* C9: every reported p-value lies in [0, 1] (the routines' p-values do).
C9_ReportedPInUnitInterval ==
    \A i \in 1..Len(res.text) :
        \A k \in 1..Len(res.text[i].p) :
            0 <= res.text[i].p[k] /\ res.text[i].p[k] <= One

PairedTwo ==
    /\ fn \in {"paired_t_test", "paired_wilcox_test"}
    /\ Len(var_names) = 2
    /\ res.status = "returned"

\* The rows of pdf with no missing value in either named column.
CompleteRows ==
    {i \in 1..Len(pdf) :
        pdf[i][var_names[1]] # NA /\ pdf[i][var_names[2]] # NA}

Ascending(S) ==
    CHOOSE q \in [1..Cardinality(S) -> S] :
        \A i, j \in 1..Cardinality(S) : i < j => q[i] < q[j]

\* C10: paired_t_test and paired_wilcox_test, given two names, report one
\* statistic and one p-value, those the routine computed on the rows
\* complete in both columns; paired_t_test reports df = n - 1 for the n
\* complete rows, paired_wilcox_test reports no df.
C10_PairedOnCompleteRows ==
    PairedTwo =>
        LET n == Cardinality(CompleteRows)
            idx == Ascending(CompleteRows)
            c == res.calls[1]
            with_stat == {i \in 1..Len(res.text) : res.text[i].stat # <<>>}
            with_p == {i \in 1..Len(res.text) : res.text[i].p # <<>>}
        IN  /\ Len(res.calls) = 1
            /\ c.samples = <<[k \in 1..n |-> pdf[idx[k]][var_names[1]]],
                             [k \in 1..n |-> pdf[idx[k]][var_names[2]]]>>
            /\ Cardinality(with_stat) = 1
            /\ with_p = with_stat
            /\ \A i \in with_stat :
                   /\ res.text[i].stat = <<c.out.stat>>
                   /\ res.text[i].p = <<c.out.p>>
                   /\ res.text[i].df = IF fn = "paired_t_test"
                                       THEN <<n - 1>>
                                       ELSE <<>>

\* A paired t-test on a frame with a complete row and an incomplete one.
C10_Witness ==
    /\ PairedTwo
    /\ fn = "paired_t_test"
    /\ CompleteRows # {}
    /\ Cardinality(CompleteRows) < Len(pdf)

\* A multi-way call that reshaped its data and handed it to AnovaRM.
MultiWayReshaped ==
    /\ RmAnova
    /\ factors # <<>>
    /\ Len(res.calls) >= 1

\* The rows of pdf complete in every named column.
ListwiseComplete ==
    {i \in 1..Len(pdf) :
        \A j \in 1..Len(var_names) : pdf[i][var_names[j]] # NA}

\* The number of elements of the cartesian product of the levels of the
\* factors after the k-th.
RECURSIVE Stride(_, _)
Stride(fs, k) == IF k >= Len(fs) THEN 1 ELSE fs[k + 1][2] * Stride(fs, k + 1)

\* The level (counted from 0) of the k-th factor in the j-th element of the
\* cartesian product of the levels, the first factor varying slowest.
LevelIn(fs, k, j) == ((j - 1) \div Stride(fs, k)) % fs[k][2]

\* The long row r holds, in the column named after the k-th factor, the
\* label of that factor's level in the j-th element (the factor's name
\* followed by the level number).
LevelCellIs(c, r, k, j) ==
    \E kk \in 1..Len(c.columns) :
        /\ c.columns[kk] = factors[k][1]
        /\ kk <= Len(c.data[r].pieces)
        /\ c.data[r].pieces[kk] = factors[k][1] \o Str(LevelIn(factors, k, j))

\* Every listwise-complete row has, for the j-th variable name, exactly one
\* long row with its index as ID and the levels of the j-th element of the
\* cartesian product in the factors' columns, and that row has the cell's
\* value; there are no other long rows.
ReshapeIsCartesian ==
    LET c == res.calls[1]
    IN  /\ Len(c.data) = Cardinality(ListwiseComplete) * Len(var_names)
        /\ \A i \in ListwiseComplete, j \in 1..Len(var_names) :
               LET made == {r \in 1..Len(c.data) :
                               /\ c.data[r].ID = i
                               /\ \A k \in 1..Len(factors) :
                                      LevelCellIs(c, r, k, j)}
               IN  /\ Cardinality(made) = 1
                   /\ \A r \in made :
                          c.data[r].value = pdf[i][var_names[j]]

\* C11: in the multi-way path, for every sequence of factors whose level
\* counts multiply to len(var_names), whatever the factor names, the long
\* frame has one row per listwise-complete row and variable, carrying the
\* row's index as ID, the cell's value and, in the column of each factor,
\* its level in the matching element of the cartesian product.
C11_ReshapeAnyFactorNames ==
    MultiWayReshaped => ReshapeIsCartesian

HasSeparator(name) == \E i \in 1..Len(name) : name[i] = "_"

\* The same for factors whose names do not contain the separator '_'.
C11_ReshapeNamesWithoutSeparator ==
    (MultiWayReshaped
     /\ \A k \in 1..Len(factors) : ~HasSeparator(factors[k][1])) =>
        ReshapeIsCartesian

\* A reshape of at least one complete row over two factors without '_'.
C11_ReshapeReached ==
    /\ MultiWayReshaped
    /\ Len(factors) = 2
    /\ \A k \in 1..Len(factors) : ~HasSeparator(factors[k][1])
    /\ ListwiseComplete # {}
    /\ Len(var_names) >= 2

====
